---- MODULE Spec2Model ----
(***************************************************************************)
(* Model of the PZEM -> OPC UA bridge (RPI-opcua-client).                  *)
(*                                                                         *)
(*   pzem_to_opcua_min.py : UmatiPrWriter (resolve_nodes, write_values)    *)
(*                          and main() (connect/retry, sampling loop,      *)
(*                          disconnect), plus the __main__ entry point.    *)
(*   opcuatest.py         : EnergyMonitor.connect_opcua (retry loop).      *)
(*                                                                         *)
(* One run of the model is one run of one program or of one method,        *)
(* selected by `variant`:                                                  *)
(*   "main"     - main() of pzem_to_opcua_min.py, started by __main__      *)
(*   "resolver" - one call of UmatiPrWriter.resolve_nodes on a new writer  *)
(*   "writer"   - one call of UmatiPrWriter.write_values on a writer whose *)
(*                node mapping is an input                                 *)
(*   "threaded" - one call of EnergyMonitor.connect_opcua                  *)
(*   "decoder"  - calls of PzemNative._decode_response and of              *)
(*                PZEMReader.decode_pzem_response on one buffer            *)
(*   "sensor"   - calls of PzemNative.read() on one PzemNative             *)
(*   "monitor"  - EnergyMonitor.run() of opcuatest.py together with the    *)
(*                background thread that runs PZEMReader._read_loop        *)
(* A step of an async function runs from one await to the next.            *)
(***************************************************************************)
EXTENDS Integers, Sequences, FiniteSets, TLC

\* ------------------------------------------------------------------ bounds
MaxRetries == 3
MaxTicks == 2
MaxFrameLen == 26
MaxDecodes == 2
MaxTime == 3
MaxReads == 3

\* --------------------------------------------------------------- constants
DefaultVars == <<"AcVoltagePe", "AcCurrentPe", "AcActivePowerPe", "AcActiveEnergyTotalImportHp">>
DefaultPath == <<"Monitoring", "Consumption", "Electricity", "Main">>

\* configurations of opcua.variables and opcua.channel_path that are explored
VarNameLists == {DefaultVars, <<"AcVoltagePe", "AcCurrentPe">>, <<"AcVoltagePe", "Frequency">>,
                 <<"AcVoltagePe", "AcVoltagePe">>}
ChannelPaths == {DefaultPath, <<"Monitoring", "Main">>}

\* browse names a server may expose under the channel container
ServerVarNames == {"AcVoltagePe", "AcCurrentPe", "AcActivePowerPe", "AcActiveEnergyTotalImportHp", "Frequency"}
\* children whose browse name only resembles a configured name
DecoyNames == {"main", "Mai", "acvoltagepe"}

Variants == {"main", "resolver", "writer", "threaded", "decoder", "sensor", "monitor"}

VARIABLES
    variant,            \* which program / method this run executes
    retries,            \* opcua.retries (main) / retry_attempts (connect_opcua)
    variable_names,     \* UmatiPrWriter.variable_names
    channel_path,       \* UmatiPrWriter.channel_path
    verbose,            \* UmatiPrWriter.verbose
    scales,             \* <<v_scale, i_scale, p_scale, e_scale>>
    tree,               \* address space of the server the session talks to
    pc,                 \* position of the running coroutine
    attempt,            \* loop variable of the retry loop
    connected,          \* the client holds an open session
    writer,             \* main(): writer is not None
    nodes,              \* UmatiPrWriter.nodes
    cur,                \* resolve_nodes: current container
    idx,                \* index of the running for-loop (path, variables, write)
    ok,                 \* write_values: local ok
    values,             \* payload handed to write_values
    r,                  \* main(): last PzemReading
    tick,               \* main(): tick
    wlog,               \* writes issued by the running / last write_values call
    wraised,            \* index in wlog of the write that raised, 0 if none
    resolveRes,         \* outcome of the last resolve_nodes call, "none" while it runs
    writeRes,           \* outcome of the last write_values call, "none" while it runs
    connectRes,         \* outcome of connect_opcua
    connectCalls,       \* number of client.connect() calls
    disconnectCalls,    \* number of client.disconnect() calls
    finalDisconnects,   \* disconnect calls issued after the sampling loop was left
    discRaised,         \* the last disconnect call raised
    retrySleeps,        \* number of asyncio.sleep(retry_delay) calls
    readCalls,          \* number of pzem.read() calls
    writeValuesCalls,   \* number of write_values calls
    succeeded,          \* some attempt connected and resolved all nodes
    exhausted,          \* the retry loop gave up after the last attempt
    signalled,          \* the shutdown signal delivered: its kind and the pc it hit
    exitCause,          \* how the sampling loop was left
    outcome,            \* how the coroutine ended
    browsed,            \* resolve_nodes: the <<container, name>> lookups issued so far
    buf,                \* the byte buffer handed to the decoders / last serial response
    simulate,           \* PzemNative.simulate
    now,                \* time.time(), in whole seconds
    dres,               \* decoder calls made so far: decoder, time, input, result
    last_energy,        \* PzemNative._last_energy
    prevEnergy,         \* energy of the reading returned by the previous read()
    readRaised,         \* an exception escaped from read()
    hw,                 \* what the serial round trip of the last read() did
    connectsOnClient,   \* connect() calls made on the current Client object
    lostAtCycle,        \* cycle (readCalls) in which the server dropped the session, 0 if it did not
    sessionAttempt,     \* the attempt whose connect() established the session, 0 if there is none
    resolvesInSession,  \* number of resolve_nodes calls made on the session
    resolvedIn,         \* for each name in nodes: the session in which its handle was resolved
    prevWritten,        \* names written, in order, by the write_values call before the current one
    emNodes,            \* EnergyMonitor.nodes: the keys that have a node (opcua.nodes)
    running,            \* PZEMReader.running
    tpc,                \* position of the background thread running _read_loop
    tdata,              \* _read_loop: local data
    latest_data,        \* PZEMReader.latest_data
    pzem_data,          \* EnergyMonitor.run: local pzem_data
    sent,               \* writes issued by the running / last send_data_to_opcua call
    sendCalls,          \* number of send_data_to_opcua calls
    reading_count,      \* EnergyMonitor.run: reading_count
    cycles,             \* EnergyMonitor.run: iterations of the while loop begun
    portOpen,           \* the serial port opened by the last read() is still open
    sample,             \* timing.sample_interval_sec, in seconds
    log_values,         \* application.log_values (main)
    values_every_n,     \* application.log_values_every_n (main)
    logTicks,           \* main(): the values of tick at which the value log was emitted
    log_every_n,        \* logging.log_every_n_readings (EnergyMonitor.run)
    logReadings         \* run(): the values of reading_count at which the reading log was emitted

vars == <<variant, retries, variable_names, channel_path, verbose, scales, tree,
          pc, attempt, connected, writer, nodes, cur, idx, ok, values, r, tick,
          wlog, wraised, resolveRes, writeRes, connectRes, connectCalls,
          disconnectCalls, finalDisconnects, discRaised, retrySleeps, readCalls,
          writeValuesCalls, succeeded, exhausted, signalled, exitCause, outcome,
          browsed,
          buf,
          simulate,
          now,
          dres,
          last_energy,
          prevEnergy,
          readRaised,
          hw,
          connectsOnClient,
          lostAtCycle,
          sessionAttempt,
          resolvesInSession,
          resolvedIn,
          prevWritten,
          emNodes,
          running,
          tpc,
          tdata,
          latest_data,
          pzem_data,
          sent,
          sendCalls,
          reading_count,
          cycles,
          portOpen,
          sample,
          log_values,
          values_every_n,
          logTicks,
          log_every_n,
          logReadings>>

config == <<variant, retries, variable_names, channel_path, verbose, scales>>

\* ------------------------------------------------------------ address space
\* A node is identified by its browse path from the machine root.
Root == <<>>
None == <<"#None">>
NoNodes == [n \in {} |-> None]

NoSignal == [kind |-> "none", at |-> "none"]

Range(s) == {s[i] : i \in 1..Len(s)}

\* the address space in which the first d segments of path exist and the
\* channel container (when reached) holds the variables V
MkTree(path, d, V) ==
    {SubSeq(path, 1, k) : k \in 0..d}
        \cup {SubSeq(path, 1, k) \o <<x>> : k \in 0..d, x \in DecoyNames}
        \cup (IF d = Len(path) THEN {path \o <<v>> : v \in V} ELSE {})

Trees(path) ==
    {MkTree(path, d, {}) : d \in 0..(Len(path) - 1)}
        \cup {MkTree(path, Len(path), V) : V \in SUBSET ServerVarNames}

get_children(t, parent) ==
    {n \in t : Len(n) = Len(parent) + 1 /\ SubSeq(n, 1, Len(parent)) = parent}

read_browse_name(n) == n[Len(n)]

\* upper/lower case folded, for the names of the model
CaseFold(n) ==
    CASE n = "main" -> "Main"
      [] n = "acvoltagepe" -> "AcVoltagePe"
      [] OTHER -> n

\* the browse name is compared ignoring case
find_child_by_browse_name_nocase(t, parent, browse_name) ==
    LET m == {n \in get_children(t, parent) : CaseFold(read_browse_name(n)) = CaseFold(browse_name)}
    IN  IF m = {} THEN None ELSE CHOOSE n \in m : TRUE

\* the comparison of the browse name is lost: the first child is returned
find_child_by_browse_name_any(t, parent, browse_name) ==
    LET m == get_children(t, parent)
    IN  IF m = {} THEN None ELSE CHOOSE n \in m : TRUE

find_child_by_browse_name(t, parent, browse_name) ==
    LET m == {n \in get_children(t, parent) : read_browse_name(n) = browse_name}
    IN  IF m = {} THEN None ELSE CHOOSE n \in m : TRUE

\* ------------------------------------------------------------ frame decode
\* length of a complete response frame
FrameLen == 25

\* a float is written as the fraction <<numerator, denominator>>
Div(n, d) == <<n, d>>

\* response frames: address, function, byte count, then the fields at their
\* offsets (voltage 3, current 5, power 9, energy 13), any other byte = fill
FrameByte(k, v, i, p, e, fill) ==
    CASE k = 0 -> 1
      [] k = 1 -> 4
      [] k = 2 -> 20
      [] k \in 3..4 -> v[k - 2]
      [] k \in 5..7 -> i[k - 4]
      [] k \in 9..11 -> p[k - 8]
      [] k \in 13..15 -> e[k - 12]
      [] OTHER -> fill

Frame(v, i, p, e, fill, len) == [k \in 1..len |-> FrameByte(k - 1, v, i, p, e, fill)]

VoltageBytes == {<<8, 252>>, <<255, 255>>, <<0, 0>>}
CurrentBytes == {<<0, 0, 150>>, <<1, 2, 3>>}
PowerBytes == {<<0, 1, 89>>, <<255, 255, 255>>}
EnergyBytes == {<<0, 0, 7>>, <<1, 0, 0>>}
FillBytes == {0, 255}

Buffers ==
    {Frame(v, i, p, e, fill, len) :
        v \in VoltageBytes, i \in CurrentBytes, p \in PowerBytes, e \in EnergyBytes,
        fill \in FillBytes, len \in 0..MaxFrameLen}

\* the offsets are taken one byte too early
Slice_shifted(b, lo, hi) == SubSeq(b, lo, IF hi - 1 < Len(b) THEN hi - 1 ELSE Len(b))

\* b[lo:hi] of Python (0-based, half open, clipped to the length)
Slice(b, lo, hi) == SubSeq(b, lo + 1, IF hi < Len(b) THEN hi ELSE Len(b))

RECURSIVE BigEndian(_)
\* value of a byte string read most significant byte first (">H", ">I")
BigEndian(bs) ==
    IF bs = <<>> THEN 0 ELSE 256 * BigEndian(SubSeq(bs, 1, Len(bs) - 1)) + bs[Len(bs)]

\* struct.unpack(fmt, bs)[0] for a format of n bytes; struct.error on another length
unpack(n, bs) ==
    IF Len(bs) # n THEN [err |-> TRUE, val |-> 0] ELSE [err |-> FALSE, val |-> BigEndian(bs)]

\* a frame one byte short is let through
TooShort_by_one(b) == Len(b) < FrameLen - 1

\* if len(buf) < 25
TooShort(b) == Len(b) < FrameLen

NoneResult == [kind |-> "None"]
StrResult(text) == [kind |-> "str", text |-> text]

\* PzemNative._decode_response: None, or a PzemReading in engineering units
decode_response(b) ==
    IF TooShort(b)
    THEN NoneResult
    ELSE LET v == unpack(2, Slice(b, 3, 5))
             i == unpack(4, <<0>> \o Slice(b, 5, 8))
             p == unpack(4, <<0>> \o Slice(b, 9, 12))
             e == unpack(4, <<0>> \o Slice(b, 13, 16))
         IN  IF v.err \/ i.err \/ p.err \/ e.err
             THEN NoneResult
             ELSE [kind |-> "reading", voltage |-> Div(v.val, 10), current |-> Div(i.val, 1000),
                   power |-> Div(p.val, 10), energy |-> Div(e.val, 1), status |-> "OK"]

\* the result carries a fixed timestamp instead of the time of the call
decode_pzem_response_unstamped(data, t) ==
    LET d == decode_response(data)
    IN  IF d = NoneResult
        THEN StrResult("Response too short")
        ELSE [kind |-> "dict", voltage |-> d.voltage, current |-> d.current,
              power |-> d.power, energy |-> d.energy,
              frequency |-> Div(BigEndian(Slice(data, 17, 19)), 10),
              power_factor |-> Div(BigEndian(Slice(data, 19, 21)), 100),
              timestamp |-> 0, status |-> "OK"]

\* PZEMReader.decode_pzem_response on bytes: a message string, or a dict of
\* the fields stamped with time.time()
decode_pzem_response(data, t) ==
    IF TooShort(data)
    THEN StrResult("Response too short")
    ELSE LET v == unpack(2, Slice(data, 3, 5))
             i == unpack(4, <<0>> \o Slice(data, 5, 8))
             p == unpack(4, <<0>> \o Slice(data, 9, 12))
             e == unpack(4, <<0>> \o Slice(data, 13, 16))
             f == unpack(2, Slice(data, 17, 19))
             pf == unpack(2, Slice(data, 19, 21))
         IN  IF v.err \/ i.err \/ p.err \/ e.err \/ f.err \/ pf.err
             THEN StrResult("Decode error")
             ELSE [kind |-> "dict", voltage |-> Div(v.val, 10), current |-> Div(i.val, 1000),
                   power |-> Div(p.val, 10), energy |-> Div(e.val, 1),
                   frequency |-> Div(f.val, 10), power_factor |-> Div(pf.val, 100),
                   timestamp |-> t, status |-> "OK"]

\* ------------------------------------------------------------------ sensor
PzemReading(v, i, p, e, s) == [voltage |-> v, current |-> i, power |-> p, energy |-> e, status |-> s]

\* readings in raw units (0.1 V, mA, 0.1 W, Wh); an error reading is all zero
NoReading == PzemReading(0, 0, 0, 0, "none")
ReadOutcomes ==
    { PzemReading(2300, 150, 345, 7, "OK"),
      PzemReading(0, 0, 0, 0, "No response/Decode fail"),
      PzemReading(0, 0, 0, 0, "Serial error") }

PayloadNames == {"AcVoltagePe", "AcCurrentPe", "AcActivePowerPe", "AcActiveEnergyTotalImportHp"}

Payload(rd, sc) ==
    [n \in PayloadNames |->
        CASE n = "AcVoltagePe" -> rd.voltage * sc[1]
          [] n = "AcCurrentPe" -> rd.current * sc[2]
          [] n = "AcActivePowerPe" -> rd.power * sc[3]
          [] OTHER -> rd.energy * sc[4]]

NoPayload == Payload(NoReading, <<1, 1, 1, 1>>)

ScaleSets == {<<1, 1, 1, 1>>, <<2, 1, 3, 1>>}

\* the fallback for a missing name is not 0.0
ValueGet_other_default(vals, name) == IF name \in DOMAIN vals THEN vals[name] ELSE -1

\* values.get(name, 0.0)
ValueGet(vals, name) == IF name \in DOMAIN vals THEN vals[name] ELSE 0

\* ------------------------------------------------------- PzemNative.read()
RatAdd(a, b) ==
    IF a[2] = b[2] THEN <<a[1] + b[1], a[2]>>
    ELSE IF a[1] = 0 THEN b
    ELSE IF b[1] = 0 THEN a
    ELSE <<a[1] * b[2] + b[1] * a[2], a[2] * b[2]>>

RatMul(a, b) == <<a[1] * b[1], a[2] * b[2]>>

RatLeq(a, b) == IF a[2] = b[2] THEN a[1] <= b[1] ELSE a[1] * b[2] <= b[1] * a[2]

\* the energy of the cycle replaces the total instead of being added to it
SimEnergy_assigned(last, power) == RatMul(power, <<5, 3600>>)

\* self._last_energy += power * (5.0 / 3600.0)
SimEnergy(last, power) == RatAdd(last, RatMul(power, <<5, 3600>>))

\* configurations of timing.sample_interval_sec that are explored (default 5.0)
SampleIntervals == {5, 10}

\* simulate branch of read() at time t with accumulated energy last
SimReading(t, last) ==
    LET voltage == RatAdd(<<2290, 10>>, IF t % 2 = 0 THEN <<5, 10>> ELSE <<-5, 10>>)
        current == RatAdd(<<150, 1000>>, IF (t \div 3) % 2 = 0 THEN <<10, 1000>> ELSE <<-10, 1000>>)
        power == RatMul(voltage, current)
    IN  PzemReading(voltage, current, power, SimEnergy(last, power), "SIM")

\* PzemReading(status=...): the measurement fields keep their default 0.0
ErrorReading(status) == PzemReading(<<0, 1>>, <<0, 1>>, <<0, 1>>, <<0, 1>>, status)

\* what the serial port does in one read(): it cannot be opened, the write
\* or the read raises, or ser.read(25) returns up to 25 bytes
SerialOutcomes == {"open_error", "write_error", "read_error", "response"}
\* ser.read(25) returns at most 25 bytes: nothing, a frame cut short, a full frame
Responses == {b \in Buffers : Len(b) \in {0, FrameLen - 1, FrameLen}}

\* an error while opening the port is not caught
HwRead_open_unguarded(port, resp, last) ==
    IF port = "open_error"
    THEN [reading |-> ErrorReading("Serial error"), last |-> last, raised |-> TRUE, open |-> FALSE]
    ELSE IF port # "response"
    THEN [reading |-> ErrorReading("Serial error"), last |-> last, raised |-> FALSE, open |-> FALSE]
    ELSE LET d == decode_response(resp)
         IN  IF d # NoneResult
             THEN [reading |-> PzemReading(d.voltage, d.current, d.power, d.energy, d.status),
                   last |-> d.energy, raised |-> FALSE,
                   open |-> FALSE]
             ELSE [reading |-> ErrorReading("No response/Decode fail"), last |-> last,
                   raised |-> FALSE, open |-> FALSE]

\* the port is closed by an explicit ser.close() after ser.read(): an error
\* in the write or the read skips it
HwRead_close_skipped(port, resp, last) ==
    IF port # "response"
    THEN [reading |-> ErrorReading("Serial error"), last |-> last, raised |-> FALSE,
          open |-> port \in {"write_error", "read_error"}]
    ELSE LET d == decode_response(resp)
         IN  IF d # NoneResult
             THEN [reading |-> PzemReading(d.voltage, d.current, d.power, d.energy, d.status),
                   last |-> d.energy, raised |-> FALSE, open |-> FALSE]
             ELSE [reading |-> ErrorReading("No response/Decode fail"), last |-> last,
                   raised |-> FALSE, open |-> FALSE]

\* hardware branch of read(): the reading returned, the new _last_energy,
\* whether an exception leaves read() and whether the port is left open.
\* `with serial.Serial(...) as ser` closes the port on every way out of the
\* block; when the open itself fails there is no port.
HwRead(port, resp, last) ==
    IF port # "response"
    THEN \* except Exception as e: return PzemReading(status=f"Serial error: {e}")
         [reading |-> ErrorReading("Serial error"), last |-> last, raised |-> FALSE, open |-> FALSE]
    ELSE LET d == decode_response(resp)
         IN  IF d # NoneResult
             THEN [reading |-> PzemReading(d.voltage, d.current, d.power, d.energy, d.status),
                   last |-> d.energy, raised |-> FALSE,
                   open |-> FALSE]
             ELSE [reading |-> ErrorReading("No response/Decode fail"), last |-> last,
                   raised |-> FALSE, open |-> FALSE]

\* ------------------------------------------- PZEMReader / EnergyMonitor
\* a Python dict is a record with the extra field kind = "dict"; {} has no
\* other field
EmptyDict == [kind |-> "dict"]
StatusDict(s) == [kind |-> "dict", status |-> s]

FrameA == Frame(<<8, 252>>, <<0, 0, 150>>, <<0, 1, 89>>, <<0, 0, 7>>, 0, FrameLen)
FrameB == Frame(<<255, 255>>, <<1, 2, 3>>, <<255, 255, 255>>, <<1, 0, 0>>, 255, FrameLen)
\* what ser.read(25) returns to the thread: nothing, a frame cut short, a frame
ThreadResponses == {<<>>, SubSeq(FrameA, 1, FrameLen - 1), FrameA, FrameB}

\* PZEMReader.read_pzem_data: ser.close() is the statement after ser.read(25)
\* and is in no finally or with block. When ser.write or ser.read raises,
\* the except clause returns with the handle never closed by the method; it
\* stays open until the interpreter finalises the Serial object, which the
\* method does not control. The set holds the possible states of the port
\* (TRUE = open) when the call has returned.
PortAfterRead(port) ==
    IF port \in {"write_error", "read_error"} THEN BOOLEAN ELSE {FALSE}

\* PZEMReader.read_pzem_data at time t
read_pzem_data(port, resp, t) ==
    IF port # "response"
    THEN StatusDict("Error")
    ELSE IF resp # <<>>
         THEN decode_pzem_response(resp, t)
         ELSE StatusDict("No response")

\* isinstance(data, dict) and 'voltage' in data
HasVoltage(d) == d.kind = "dict" /\ "voltage" \in DOMAIN d

\* str(data)
Str(d) ==
    CASE d.kind = "str" -> d.text
      [] d.status = "No response" -> "{'status': 'No response'}"
      [] OTHER -> "{'status': 'Error'}"

\* the published dict is updated in place: one field keeps its old value
Publish_in_place(old, data) ==
    IF HasVoltage(data)
    THEN IF HasVoltage(old) THEN [data EXCEPT !.current = old.current] ELSE data
    ELSE StatusDict(Str(data))

\* _read_loop: the value assigned to self.latest_data for the result data
Publish(old, data) ==
    IF HasVoltage(data) THEN data ELSE StatusDict(Str(data))

\* `if pzem_data and 'voltage' in pzem_data` without the test for 'voltage'
ShouldSend_any_dict(d) == DOMAIN d # {"kind"}

\* if pzem_data and 'voltage' in pzem_data
ShouldSend(d) == DOMAIN d # {"kind"} /\ "voltage" \in DOMAIN d

\* data.get(key, default)
Get(d, key, default) == IF key \in DOMAIN d THEN d[key] ELSE default

SendKeys == <<"voltage", "current", "power", "energy", "frequency", "power_factor",
              "status", "timestamp">>
EmNodeSets == {Range(SendKeys), {"voltage", "power", "status"}}

\* send_data_to_opcua: the dict `values` built from data at time t
SendValues(data, t) ==
    [k \in Range(SendKeys) |->
        CASE k = "voltage" -> Get(data, "voltage", <<0, 1>>)
          [] k = "current" -> Get(data, "current", <<0, 1>>)
          [] k = "power" -> Get(data, "power", <<0, 1>>)
          [] k = "energy" -> Get(data, "energy", <<0, 1>>)
          [] k = "frequency" -> Get(data, "frequency", <<50, 1>>)
          [] k = "power_factor" -> Get(data, "power_factor", <<1, 1>>)
          [] k = "status" -> Get(data, "status", "OK")
          [] OTHER -> <<"isoformat", t>>]

\* ------------------------------------------------------------ periodic logs
\* configurations <<log_values, log_values_every_n>> of main() that are explored
LogConfigs == {<<FALSE, 12>>, <<TRUE, 0>>, <<TRUE, 2>>}
\* configurations of log_every_n_readings of EnergyMonitor.run() (default 5)
LogEveryNs == {0, 2, 5}

\* max(1, values_every_n)
Max1(n) == IF n > 1 THEN n ELSE 1

\* main(): if log_values and (tick % max(1, values_every_n) == 0)
LogsValues(lv, n, t) == lv /\ t % Max1(n) = 0

\* main(): tick += 1, then the optional value log
TickLog(t) == IF LogsValues(log_values, values_every_n, t) THEN logTicks \cup {t} ELSE logTicks

\* ------------------------------------------------------------- entry point
\* __main__: asyncio.run(main()) inside try / except KeyboardInterrupt: pass
ExitCode(out) ==
    CASE out = "returned" -> 0
      [] out = "KeyboardInterrupt" -> 0
      [] OTHER -> 1

\* ------------------------------------------------------------------- Init
InitCommon ==
    /\ logReadings = {}
    /\ logTicks = {}
    /\ portOpen = FALSE
    /\ cycles = 0
    /\ reading_count = 0
    /\ sendCalls = 0
    /\ sent = <<>>
    /\ pzem_data = [kind |-> "dict"]
    /\ latest_data = [kind |-> "dict"]
    /\ tdata = [kind |-> "dict"]
    /\ tpc = "off"
    /\ running = FALSE
    /\ prevWritten = <<>>
    /\ resolvedIn = [n \in {} |-> 0]
    /\ resolvesInSession = 0
    /\ sessionAttempt = 0
    /\ lostAtCycle = 0
    /\ connectsOnClient = 0
    /\ hw = "none"
    /\ readRaised = FALSE
    /\ prevEnergy = <<0, 1>>
    /\ last_energy = <<0, 1>>
    /\ dres = <<>>
    /\ now = 0
    /\ browsed = <<>>
    /\ tick = 0
    /\ connected = FALSE
    /\ writer = FALSE
    /\ cur = Root
    /\ ok = TRUE
    /\ r = NoReading
    /\ wlog = <<>>
    /\ wraised = 0
    /\ resolveRes = "none"
    /\ writeRes = "none"
    /\ connectRes = "none"
    /\ connectCalls = 0
    /\ disconnectCalls = 0
    /\ finalDisconnects = 0
    /\ discRaised = FALSE
    /\ retrySleeps = 0
    /\ readCalls = 0
    /\ writeValuesCalls = 0
    /\ succeeded = FALSE
    /\ exhausted = FALSE
    /\ signalled = NoSignal
    /\ exitCause = "none"
    /\ outcome = "running"

InitMain ==
    /\ variant = "main"
    /\ log_every_n = 5
    /\ sample = 5
    /\ emNodes = {}
    /\ buf = <<>>
    /\ simulate = FALSE
    /\ retries \in 0..MaxRetries
    /\ variable_names \in VarNameLists
    /\ channel_path \in ChannelPaths
    /\ verbose \in BOOLEAN
    /\ scales \in ScaleSets
    /\ tree = {}
    /\ nodes = NoNodes
    /\ values = NoPayload
    /\ idx = 1
    /\ attempt = 1
    \* for attempt in range(1, retries + 1): an empty range goes straight on
    /\ pc = IF retries >= 1 THEN "connect" ELSE "read"
    \* the log settings are varied for the quiet runs with at most one attempt
    /\ \E lc \in (IF retries <= 1 /\ ~verbose THEN LogConfigs ELSE {<<FALSE, 12>>}) :
          /\ log_values = lc[1]
          /\ values_every_n = lc[2]

InitResolver ==
    /\ variant = "resolver"
    /\ log_every_n = 5
    /\ log_values = FALSE
    /\ values_every_n = 12
    /\ sample = 5
    /\ emNodes = {}
    /\ buf = <<>>
    /\ simulate = FALSE
    /\ retries = 0
    /\ variable_names \in VarNameLists
    /\ channel_path \in ChannelPaths
    /\ verbose \in BOOLEAN
    /\ scales = <<1, 1, 1, 1>>
    /\ tree \in Trees(channel_path)
    /\ nodes = NoNodes
    /\ values = NoPayload
    /\ idx = 1
    /\ attempt = 1
    /\ pc = "resolve_path"

InitWriter ==
    /\ variant = "writer"
    /\ log_every_n = 5
    /\ log_values = FALSE
    /\ values_every_n = 12
    /\ sample = 5
    /\ emNodes = {}
    /\ buf = <<>>
    /\ simulate = FALSE
    /\ retries = 0
    /\ variable_names \in VarNameLists
    /\ channel_path = DefaultPath
    /\ verbose = FALSE
    /\ scales = <<1, 1, 1, 1>>
    /\ tree = MkTree(channel_path, Len(channel_path), ServerVarNames)
    /\ \E S \in SUBSET Range(variable_names) :
          nodes = [n \in S |-> channel_path \o <<n>>]
    /\ \E rd \in ReadOutcomes : values = Payload(rd, scales)
    /\ idx = 1
    /\ attempt = 1
    /\ pc = "write"

InitThreaded ==
    /\ variant = "threaded"
    /\ log_every_n = 5
    /\ log_values = FALSE
    /\ values_every_n = 12
    /\ sample = 5
    /\ emNodes = {}
    /\ buf = <<>>
    /\ simulate = FALSE
    /\ retries \in 0..MaxRetries
    /\ variable_names = DefaultVars
    /\ channel_path = DefaultPath
    /\ verbose = FALSE
    /\ scales = <<1, 1, 1, 1>>
    /\ tree = {}
    /\ nodes = NoNodes
    /\ values = NoPayload
    /\ idx = 1
    /\ attempt = 0
    \* for attempt in range(retry_attempts)
    /\ pc = IF retries >= 1 THEN "em_connect" ELSE "em_return"

InitDecoder ==
    /\ variant = "decoder"
    /\ log_every_n = 5
    /\ log_values = FALSE
    /\ values_every_n = 12
    /\ sample = 5
    /\ emNodes = {}
    /\ buf \in Buffers
    /\ simulate = FALSE
    /\ retries = 0
    /\ variable_names = DefaultVars
    /\ channel_path = DefaultPath
    /\ verbose = FALSE
    /\ scales = <<1, 1, 1, 1>>
    /\ tree = {}
    /\ nodes = NoNodes
    /\ values = NoPayload
    /\ idx = 1
    /\ attempt = 1
    /\ pc = "idle"

InitSensor ==
    /\ variant = "sensor"
    /\ log_every_n = 5
    /\ log_values = FALSE
    /\ values_every_n = 12
    /\ sample \in SampleIntervals
    /\ emNodes = {}
    /\ buf = <<>>
    /\ simulate \in BOOLEAN
    /\ retries = 0
    /\ variable_names = DefaultVars
    /\ channel_path = DefaultPath
    /\ verbose = FALSE
    /\ scales = <<1, 1, 1, 1>>
    /\ tree = {}
    /\ nodes = NoNodes
    /\ values = NoPayload
    /\ idx = 1
    /\ attempt = 1
    /\ pc = "idle"

InitMonitor ==
    /\ variant = "monitor"
    /\ log_every_n \in LogEveryNs
    /\ log_values = FALSE
    /\ values_every_n = 12
    /\ sample = 5
    /\ emNodes \in EmNodeSets
    /\ buf = <<>>
    /\ simulate = FALSE
    /\ retries = 0
    /\ variable_names = DefaultVars
    /\ channel_path = DefaultPath
    /\ verbose = FALSE
    /\ scales = <<1, 1, 1, 1>>
    /\ tree = {}
    /\ nodes = NoNodes
    /\ values = NoPayload
    /\ idx = 1
    /\ attempt = 0
    /\ pc = "m_start"

Init ==
    /\ InitCommon
    /\ (InitMain \/ InitResolver \/ InitWriter \/ InitThreaded \/ InitDecoder \/ InitSensor
          \/ InitMonitor)


\* ------------------------------------------------- UmatiPrWriter.resolve_nodes
AwaitsBrowse == pc \in {"resolve_path", "resolve_vars"}

\* resolve_nodes returns (res = "True" / "False") or raises (res = "raised");
\* in main() the caller breaks out of the retry loop on True and otherwise
\* lands in the except clause of the attempt
ResolveEnd(res) ==
    /\ resolveRes' = res
    /\ IF variant = "main"
       THEN /\ pc' = IF res = "True" THEN "read" ELSE "fail_disconnect"
            /\ succeeded' = (succeeded \/ res = "True")
            /\ outcome' = outcome
       ELSE /\ pc' = "done"
            /\ succeeded' = succeeded
            /\ outcome' = IF res = "raised" THEN "raised" ELSE "returned"

ResolveContinue(next) ==
    /\ pc' = next
    /\ UNCHANGED <<resolveRes, succeeded, outcome>>

\* for segment in self.channel_path: one lookup per step
ResolvePathStep ==
    /\ variant \in {"main", "resolver"}
    /\ pc = "resolve_path"
    /\ browsed' = Append(browsed, <<cur, channel_path[idx]>>)
    /\ LET nxt == find_child_by_browse_name(tree, cur, channel_path[idx])
       IN  IF nxt = None
           THEN /\ ResolveEnd("False")
                /\ UNCHANGED <<cur, idx>>
           ELSE /\ cur' = nxt
                /\ IF idx < Len(channel_path)
                   THEN idx' = idx + 1 /\ ResolveContinue("resolve_path")
                   ELSE idx' = 1 /\ ResolveContinue("resolve_vars")
    /\ UNCHANGED <<config, logReadings, log_every_n, logTicks, values_every_n, log_values, sample, portOpen, cycles, reading_count, sendCalls, sent, pzem_data, latest_data, tdata, tpc, running, emNodes, prevWritten, resolvedIn, resolvesInSession, sessionAttempt, lostAtCycle, connectsOnClient, hw, readRaised, prevEnergy, last_energy, dres, now, simulate, buf, tree, attempt, connected, writer, nodes, ok, values, r,
                   tick, wlog, wraised, writeRes, connectRes, connectCalls,
                   disconnectCalls, finalDisconnects, discRaised, retrySleeps,
                   readCalls, writeValuesCalls, exhausted, signalled, exitCause>>

\* for name in self.variable_names: one lookup per step
ResolveVarStep ==
    /\ variant \in {"main", "resolver"}
    /\ pc = "resolve_vars"
    /\ browsed' = Append(browsed, <<cur, variable_names[idx]>>)
    /\ LET name == variable_names[idx]
           node == find_child_by_browse_name(tree, cur, name)
       IN  IF node = None
           THEN /\ ResolveEnd("False")
                /\ UNCHANGED <<nodes, resolvedIn, idx>>
           ELSE /\ nodes' = [n \in DOMAIN nodes \cup {name} |->
                                IF n = name THEN node ELSE nodes[n]]
                /\ resolvedIn' = [n \in DOMAIN resolvedIn \cup {name} |->
                                     IF n = name THEN sessionAttempt ELSE resolvedIn[n]]
                /\ IF idx < Len(variable_names)
                   THEN idx' = idx + 1 /\ ResolveContinue("resolve_vars")
                   ELSE /\ idx' = 1
                        /\ IF verbose
                           THEN ResolveContinue("resolve_verbose")
                           ELSE ResolveEnd("True")
    /\ UNCHANGED <<config, logReadings, log_every_n, logTicks, values_every_n, log_values, sample, portOpen, cycles, reading_count, sendCalls, sent, pzem_data, latest_data, tdata, tpc, running, emNodes, prevWritten, resolvesInSession, sessionAttempt, lostAtCycle, connectsOnClient, hw, readRaised, prevEnergy, last_energy, dres, now, simulate, buf, tree, attempt, connected, writer, cur, ok, values, r,
                   tick, wlog, wraised, writeRes, connectRes, connectCalls,
                   disconnectCalls, finalDisconnects, discRaised, retrySleeps,
                   readCalls, writeValuesCalls, exhausted, signalled, exitCause>>

\* parent.get_children() / read_browse_name() fails on the transport
ResolveBrowseRaises ==
    /\ variant \in {"main", "resolver"}
    /\ AwaitsBrowse
    /\ ResolveEnd("raised")
    /\ UNCHANGED <<config, logReadings, log_every_n, logTicks, values_every_n, log_values, sample, portOpen, cycles, reading_count, sendCalls, sent, pzem_data, latest_data, tdata, tpc, running, emNodes, prevWritten, resolvedIn, resolvesInSession, sessionAttempt, lostAtCycle, connectsOnClient, hw, readRaised, prevEnergy, last_energy, dres, now, simulate, buf, browsed, tree, attempt, connected, writer, nodes, cur, idx, ok,
                   values, r, tick, wlog, wraised, writeRes, connectRes,
                   connectCalls, disconnectCalls, finalDisconnects, discRaised,
                   retrySleeps, readCalls, writeValuesCalls, exhausted, signalled,
                   exitCause>>

\* if self.verbose: read_attributes of every resolved node (may raise)
ResolveVerbose ==
    /\ variant \in {"main", "resolver"}
    /\ pc = "resolve_verbose"
    /\ \E res \in {"True", "raised"} : ResolveEnd(res)
    /\ UNCHANGED <<config, logReadings, log_every_n, logTicks, values_every_n, log_values, sample, portOpen, cycles, reading_count, sendCalls, sent, pzem_data, latest_data, tdata, tpc, running, emNodes, prevWritten, resolvedIn, resolvesInSession, sessionAttempt, lostAtCycle, connectsOnClient, hw, readRaised, prevEnergy, last_energy, dres, now, simulate, buf, browsed, tree, attempt, connected, writer, nodes, cur, idx, ok,
                   values, r, tick, wlog, wraised, writeRes, connectRes,
                   connectCalls, disconnectCalls, finalDisconnects, discRaised,
                   retrySleeps, readCalls, writeValuesCalls, exhausted, signalled,
                   exitCause>>

\* -------------------------------------------------- UmatiPrWriter.write_values
\* write_values returns res; main() then counts the tick and sleeps
WriteEnd(res) ==
    /\ writeRes' = res
    /\ IF variant = "main"
       THEN /\ tick' = tick + 1
            /\ logTicks' = TickLog(tick + 1)
            /\ pc' = "sleep"
            /\ outcome' = outcome
       ELSE /\ tick' = tick
            /\ logTicks' = logTicks
            /\ pc' = "done"
            /\ outcome' = "returned"

WriteAdvance(okNew) ==
    IF idx < Len(variable_names)
    THEN /\ idx' = idx + 1
         /\ UNCHANGED <<pc, writeRes, tick, logTicks, outcome>>
    ELSE /\ idx' = idx
         /\ WriteEnd(IF okNew THEN "True" ELSE "False")

\* the name the loop is at has a node: its write is the pending await
WritePending == pc = "write" /\ variable_names[idx] \in DOMAIN nodes

\* body of the loop for one name: whether ok is kept, whether a write is
\* issued, and whether the loop goes on ("continue") or the call returns False
\* from the except clause ("False").  raises: the issued write raises.
WriteItem_abort_on_unresolved(nds, name, okv, raises) ==
    IF name \notin DOMAIN nds
    THEN [ok |-> FALSE, issue |-> FALSE, ret |-> "False"]
    ELSE [ok |-> okv, issue |-> TRUE, ret |-> IF raises THEN "False" ELSE "continue"]

WriteItem_ok_kept(nds, name, okv, raises) ==
    IF name \notin DOMAIN nds
    THEN [ok |-> okv, issue |-> FALSE, ret |-> "continue"]
    ELSE [ok |-> okv, issue |-> TRUE, ret |-> IF raises THEN "False" ELSE "continue"]

WriteItem(nds, name, okv, raises) ==
    IF name \notin DOMAIN nds
    THEN [ok |-> FALSE, issue |-> FALSE, ret |-> "continue"]
    ELSE [ok |-> okv, issue |-> TRUE, ret |-> IF raises THEN "False" ELSE "continue"]

\* for name in self.variable_names: one name per step
WriteStep ==
    /\ variant \in {"main", "writer"}
    /\ pc = "write"
    /\ \E raises \in BOOLEAN :
          \* on a dropped session every write raises
          /\ lostAtCycle > 0 => raises
          /\ LET name == variable_names[idx]
                 it == WriteItem(nodes, name, ok, raises)
             IN  /\ ok' = it.ok
                 /\ wlog' = IF it.issue
                            THEN Append(wlog, <<name, ValueGet(values, name)>>)
                            ELSE wlog
                 /\ wraised' = IF it.issue /\ raises THEN Len(wlog) + 1 ELSE wraised
                 /\ IF it.ret = "continue"
                    THEN WriteAdvance(it.ok)
                    ELSE /\ WriteEnd(it.ret)
                         /\ UNCHANGED idx
    /\ UNCHANGED <<config, logReadings, log_every_n, values_every_n, log_values, sample, portOpen, cycles, reading_count, sendCalls, sent, pzem_data, latest_data, tdata, tpc, running, emNodes, prevWritten, resolvedIn, resolvesInSession, sessionAttempt, lostAtCycle, connectsOnClient, hw, readRaised, prevEnergy, last_energy, dres, now, simulate, buf, browsed, tree, attempt, connected, writer, nodes, cur, values, r,
                   resolveRes, connectRes, connectCalls, disconnectCalls,
                   finalDisconnects, discRaised, retrySleeps, readCalls,
                   writeValuesCalls, succeeded, exhausted, signalled, exitCause>>

\* ------------------------------------------------------------------ main()
\* if attempt < retries: sleep and retry, else give up
MoreAttempts_inclusive(a, n) == a <= n

MoreAttempts(a, n) == a < n

\* how main() ends once the finally clause has run: CancelledError and
\* KeyboardInterrupt are caught by their except clauses, other errors re-raise
LoopExitOutcome_cancel_uncaught(cause) ==
    CASE cause = "fault" -> "raised"
      [] cause = "cancel" -> "CancelledError"
      [] OTHER -> "returned"

LoopExitOutcome(cause) == IF cause = "fault" THEN "raised" ELSE "returned"

\* the writer is built but resolve_nodes is not called: sampling starts at once
Connect_resolve_skipped ==
    /\ variant = "main"
    /\ pc = "connect"
    /\ connectCalls' = connectCalls + 1
    \* client = Client(url=endpoint) was built once, before the loop
    /\ connectsOnClient' = connectsOnClient + 1
    /\ \/ /\ connected' = TRUE
          /\ writer' = TRUE
          /\ nodes' = NoNodes
          /\ resolvedIn' = [n \in {} |-> 0]
          /\ sessionAttempt' = attempt
          /\ resolvesInSession' = 0
          /\ tree' \in Trees(channel_path)
          /\ cur' = Root
          /\ idx' = 1
          /\ resolveRes' = "none"
          /\ browsed' = <<>>
          /\ pc' = "read"
       \/ /\ pc' = "fail_disconnect"
          /\ UNCHANGED <<connected, writer, nodes, tree, cur, idx, resolveRes, browsed,
                       resolvedIn, sessionAttempt, resolvesInSession>>
    /\ UNCHANGED <<config, logReadings, log_every_n, logTicks, values_every_n, log_values, sample, portOpen, cycles, reading_count, sendCalls, sent, pzem_data, latest_data, tdata, tpc, running, emNodes, prevWritten, lostAtCycle, hw, readRaised, prevEnergy, last_energy, dres, now, simulate, buf, attempt, ok, values, r, tick, wlog, wraised,
                   writeRes, connectRes, disconnectCalls, finalDisconnects,
                   discRaised, retrySleeps, readCalls, writeValuesCalls, succeeded,
                   exhausted, signalled, exitCause, outcome>>

\* await client.connect(); on success the writer is built and resolve_nodes starts
Connect ==
    /\ variant = "main"
    /\ pc = "connect"
    /\ connectCalls' = connectCalls + 1
    \* client = Client(url=endpoint) was built once, before the loop
    /\ connectsOnClient' = connectsOnClient + 1
    /\ \/ /\ connected' = TRUE
          /\ writer' = TRUE
          /\ nodes' = NoNodes
          /\ resolvedIn' = [n \in {} |-> 0]
          /\ sessionAttempt' = attempt
          \* if not await writer.resolve_nodes(): ...
          /\ resolvesInSession' = 1
          /\ tree' \in Trees(channel_path)
          /\ cur' = Root
          /\ idx' = 1
          /\ resolveRes' = "none"
          /\ browsed' = <<>>
          /\ pc' = "resolve_path"
       \/ /\ pc' = "fail_disconnect"
          /\ UNCHANGED <<connected, writer, nodes, tree, cur, idx, resolveRes, browsed,
                       resolvedIn, sessionAttempt, resolvesInSession>>
    /\ UNCHANGED <<config, logReadings, log_every_n, logTicks, values_every_n, log_values, sample, portOpen, cycles, reading_count, sendCalls, sent, pzem_data, latest_data, tdata, tpc, running, emNodes, prevWritten, lostAtCycle, hw, readRaised, prevEnergy, last_energy, dres, now, simulate, buf, attempt, ok, values, r, tick, wlog, wraised,
                   writeRes, connectRes, disconnectCalls, finalDisconnects,
                   discRaised, retrySleeps, readCalls, writeValuesCalls, succeeded,
                   exhausted, signalled, exitCause, outcome>>

\* the failed attempt's writer is kept (writer = None is missing)
FailDisconnect_keeps_writer ==
    /\ variant = "main"
    /\ pc = "fail_disconnect"
    /\ disconnectCalls' = disconnectCalls + 1
    /\ discRaised' \in BOOLEAN
    /\ connected' = FALSE
    /\ sessionAttempt' = 0
    /\ resolvesInSession' = 0
    /\ UNCHANGED <<writer, nodes, resolvedIn>>
    /\ IF MoreAttempts(attempt, retries)
       THEN /\ retrySleeps' = retrySleeps + 1
            /\ pc' = "backoff"
            /\ UNCHANGED <<exhausted, outcome>>
       ELSE /\ exhausted' = TRUE
            /\ outcome' = "returned"
            /\ pc' = "done"
            /\ UNCHANGED retrySleeps
    /\ UNCHANGED <<config, logReadings, log_every_n, logTicks, values_every_n, log_values, sample, portOpen, cycles, reading_count, sendCalls, sent, pzem_data, latest_data, tdata, tpc, running, emNodes, prevWritten, lostAtCycle, connectsOnClient, hw, readRaised, prevEnergy, last_energy, dres, now, simulate, buf, browsed, tree, attempt, cur, idx, ok, values, r, tick, wlog,
                   wraised, resolveRes, writeRes, connectRes, connectCalls,
                   finalDisconnects, readCalls, writeValuesCalls, succeeded,
                   signalled, exitCause>>

\* except Exception: disconnect (errors swallowed), writer = None, sleep or give up
FailDisconnect ==
    /\ variant = "main"
    /\ pc = "fail_disconnect"
    /\ disconnectCalls' = disconnectCalls + 1
    /\ discRaised' \in BOOLEAN
    /\ connected' = FALSE
    /\ sessionAttempt' = 0
    /\ resolvesInSession' = 0
    /\ writer' = FALSE
    /\ nodes' = NoNodes
    /\ resolvedIn' = [n \in {} |-> 0]
    /\ IF MoreAttempts(attempt, retries)
       THEN /\ retrySleeps' = retrySleeps + 1
            /\ pc' = "backoff"
            /\ UNCHANGED <<exhausted, outcome>>
       ELSE /\ exhausted' = TRUE
            /\ outcome' = "returned"
            /\ pc' = "done"
            /\ UNCHANGED retrySleeps
    /\ UNCHANGED <<config, logReadings, log_every_n, logTicks, values_every_n, log_values, sample, portOpen, cycles, reading_count, sendCalls, sent, pzem_data, latest_data, tdata, tpc, running, emNodes, prevWritten, lostAtCycle, connectsOnClient, hw, readRaised, prevEnergy, last_energy, dres, now, simulate, buf, browsed, tree, attempt, cur, idx, ok, values, r, tick, wlog,
                   wraised, resolveRes, writeRes, connectRes, connectCalls,
                   finalDisconnects, readCalls, writeValuesCalls, succeeded,
                   signalled, exitCause>>

\* await asyncio.sleep(retry_delay) completes; next iteration of the for loop
Backoff ==
    /\ variant = "main"
    /\ pc = "backoff"
    /\ attempt' = attempt + 1
    /\ pc' = "connect"
    /\ UNCHANGED <<config, logReadings, log_every_n, logTicks, values_every_n, log_values, sample, portOpen, cycles, reading_count, sendCalls, sent, pzem_data, latest_data, tdata, tpc, running, emNodes, prevWritten, resolvedIn, resolvesInSession, sessionAttempt, lostAtCycle, connectsOnClient, hw, readRaised, prevEnergy, last_energy, dres, now, simulate, buf, browsed, tree, connected, writer, nodes, cur, idx, ok, values, r,
                   tick, wlog, wraised, resolveRes, writeRes, connectRes,
                   connectCalls, disconnectCalls, finalDisconnects, discRaised,
                   retrySleeps, readCalls, writeValuesCalls, succeeded, exhausted,
                   signalled, exitCause, outcome>>

\* one cycle up to write_values: r = pzem.read(); scale; payload;
\* if writer and not await writer.write_values(payload)
Read ==
    /\ variant = "main"
    /\ pc = "read"
    /\ readCalls' = readCalls + 1
    /\ \E rd \in ReadOutcomes :
          /\ r' = rd
          /\ values' = Payload(rd, scales)
    /\ IF writer
       THEN /\ writeValuesCalls' = writeValuesCalls + 1
            /\ ok' = TRUE
            /\ idx' = 1
            /\ wlog' = <<>>
            /\ prevWritten' = [i \in 1..Len(wlog) |-> wlog[i][1]]
            /\ wraised' = 0
            /\ writeRes' = "none"
            /\ pc' = "write"
            /\ UNCHANGED <<tick, logTicks>>
       ELSE /\ tick' = tick + 1
            /\ logTicks' = TickLog(tick + 1)
            /\ pc' = "sleep"
            /\ UNCHANGED <<writeValuesCalls, ok, idx, wlog, wraised, writeRes, prevWritten>>
    /\ UNCHANGED <<config, logReadings, log_every_n, values_every_n, log_values, sample, portOpen, cycles, reading_count, sendCalls, sent, pzem_data, latest_data, tdata, tpc, running, emNodes, resolvedIn, resolvesInSession, sessionAttempt, lostAtCycle, connectsOnClient, hw, readRaised, prevEnergy, last_energy, dres, now, simulate, buf, browsed, tree, attempt, connected, writer, nodes, cur, resolveRes,
                   connectRes, connectCalls, disconnectCalls, finalDisconnects,
                   discRaised, retrySleeps, succeeded, exhausted, signalled,
                   exitCause, outcome>>

\* await asyncio.sleep(sample) completes; next cycle
Sleep ==
    /\ variant = "main"
    /\ pc = "sleep"
    /\ tick < MaxTicks
    /\ pc' = "read"
    /\ UNCHANGED <<config, logReadings, log_every_n, logTicks, values_every_n, log_values, sample, portOpen, cycles, reading_count, sendCalls, sent, pzem_data, latest_data, tdata, tpc, running, emNodes, prevWritten, resolvedIn, resolvesInSession, sessionAttempt, lostAtCycle, connectsOnClient, hw, readRaised, prevEnergy, last_energy, dres, now, simulate, buf, browsed, tree, attempt, connected, writer, nodes, cur, idx, ok,
                   values, r, tick, wlog, wraised, resolveRes, writeRes, connectRes,
                   connectCalls, disconnectCalls, finalDisconnects, discRaised,
                   retrySleeps, readCalls, writeValuesCalls, succeeded, exhausted,
                   signalled, exitCause, outcome>>

\* an exception other than cancellation / Ctrl+C is raised inside the loop body
Fault ==
    /\ variant = "main"
    /\ pc = "read"
    /\ exitCause' = "fault"
    /\ pc' = "final_disconnect"
    /\ UNCHANGED <<config, logReadings, log_every_n, logTicks, values_every_n, log_values, sample, portOpen, cycles, reading_count, sendCalls, sent, pzem_data, latest_data, tdata, tpc, running, emNodes, prevWritten, resolvedIn, resolvesInSession, sessionAttempt, lostAtCycle, connectsOnClient, hw, readRaised, prevEnergy, last_energy, dres, now, simulate, buf, browsed, tree, attempt, connected, writer, nodes, cur, idx, ok,
                   values, r, tick, wlog, wraised, resolveRes, writeRes, connectRes,
                   connectCalls, disconnectCalls, finalDisconnects, discRaised,
                   retrySleeps, readCalls, writeValuesCalls, succeeded, exhausted,
                   signalled, outcome>>

\* finally: try: await client.disconnect() except Exception: pass
FinalDisconnect ==
    /\ variant = "main"
    /\ pc = "final_disconnect"
    /\ disconnectCalls' = disconnectCalls + 1
    /\ finalDisconnects' = finalDisconnects + 1
    /\ discRaised' \in BOOLEAN
    /\ connected' = FALSE
    /\ pc' = "done"
    \* CancelledError and KeyboardInterrupt were handled; anything else re-raises
    /\ outcome' = LoopExitOutcome(exitCause)
    /\ UNCHANGED <<config, logReadings, log_every_n, logTicks, values_every_n, log_values, sample, portOpen, cycles, reading_count, sendCalls, sent, pzem_data, latest_data, tdata, tpc, running, emNodes, prevWritten, resolvedIn, resolvesInSession, sessionAttempt, lostAtCycle, connectsOnClient, hw, readRaised, prevEnergy, last_energy, dres, now, simulate, buf, browsed, tree, attempt, writer, nodes, cur, idx, ok, values, r,
                   tick, wlog, wraised, resolveRes, writeRes, connectRes,
                   connectCalls, retrySleeps, readCalls, writeValuesCalls,
                   succeeded, exhausted, signalled, exitCause>>

\* the server or the network drops the session while main() is sampling;
\* nothing in the loop reacts to it
SessionLost ==
    /\ variant = "main"
    /\ pc \in {"write", "sleep"}
    /\ connected
    /\ lostAtCycle = 0
    /\ lostAtCycle' = readCalls
    /\ connected' = FALSE
    /\ UNCHANGED <<config, logReadings, log_every_n, logTicks, values_every_n, log_values, sample, portOpen, cycles, reading_count, sendCalls, sent,
                   pzem_data, latest_data, tdata, tpc, running, emNodes, prevWritten,
                   resolvedIn, resolvesInSession, sessionAttempt, buf, simulate, now,
                   dres, last_energy, prevEnergy, readRaised, hw, connectsOnClient,
                   tree, pc, attempt, writer, nodes, cur, idx, ok, values, r, tick,
                   wlog, wraised, resolveRes, writeRes, connectRes, connectCalls,
                   disconnectCalls, finalDisconnects, discRaised, retrySleeps,
                   readCalls, writeValuesCalls, succeeded, exhausted, signalled,
                   exitCause, outcome, browsed>>

\* ------------------------------------------------------- shutdown signals
ConnectPhase == pc \in {"connect", "resolve_path", "resolve_vars", "resolve_verbose",
                        "fail_disconnect", "backoff"}
SamplingPhase == pc \in {"read", "write", "sleep"}

\* the task is cancelled: CancelledError is raised at the pending await.
\* The retry loop only has `except Exception` around it and is outside the
\* try/finally, so there the error leaves main(); the sampling loop handles it.
Cancel ==
    /\ variant = "main"
    /\ signalled = NoSignal
    /\ signalled' = [kind |-> "cancel", at |-> pc]
    /\ \/ /\ ConnectPhase
          /\ pc' = "done"
          /\ outcome' = "CancelledError"
          /\ connectCalls' = connectCalls + (IF pc = "connect" THEN 1 ELSE 0)
          /\ connectsOnClient' = connectsOnClient + (IF pc = "connect" THEN 1 ELSE 0)
          /\ disconnectCalls' = disconnectCalls + (IF pc = "fail_disconnect" THEN 1 ELSE 0)
          /\ UNCHANGED <<exitCause, wlog, finalDisconnects>>
       \/ /\ WritePending \/ pc = "sleep"
          /\ pc' = "final_disconnect"
          /\ exitCause' = "cancel"
          /\ wlog' = IF pc = "write"
                     THEN Append(wlog, <<variable_names[idx], ValueGet(values, variable_names[idx])>>)
                     ELSE wlog
          /\ UNCHANGED <<outcome, connectCalls, connectsOnClient, disconnectCalls, finalDisconnects>>
       \/ /\ pc = "final_disconnect"
          /\ pc' = "done"
          /\ outcome' = "CancelledError"
          /\ disconnectCalls' = disconnectCalls + 1
          /\ finalDisconnects' = finalDisconnects + 1
          /\ UNCHANGED <<exitCause, wlog, connectCalls, connectsOnClient>>
    /\ UNCHANGED <<config, logReadings, log_every_n, logTicks, values_every_n, log_values, sample, portOpen, cycles, reading_count, sendCalls, sent, pzem_data, latest_data, tdata, tpc, running, emNodes, prevWritten, resolvedIn, resolvesInSession, sessionAttempt, lostAtCycle, hw, readRaised, prevEnergy, last_energy, dres, now, simulate, buf, browsed, tree, attempt, connected, writer, nodes, cur, idx, ok,
                   values, r, tick, wraised, resolveRes, writeRes, connectRes,
                   discRaised, retrySleeps, readCalls, writeValuesCalls, succeeded,
                   exhausted>>

\* Ctrl+C: KeyboardInterrupt is raised in the running code
KeyboardInterrupt ==
    /\ variant = "main"
    /\ signalled = NoSignal
    /\ signalled' = [kind |-> "kbint", at |-> pc]
    /\ \/ /\ ConnectPhase
          /\ pc' = "done"
          /\ outcome' = "KeyboardInterrupt"
          /\ UNCHANGED exitCause
       \/ /\ SamplingPhase
          /\ pc' = "final_disconnect"
          /\ exitCause' = "kbint"
          /\ UNCHANGED outcome
    /\ UNCHANGED <<config, logReadings, log_every_n, logTicks, values_every_n, log_values, sample, portOpen, cycles, reading_count, sendCalls, sent, pzem_data, latest_data, tdata, tpc, running, emNodes, prevWritten, resolvedIn, resolvesInSession, sessionAttempt, lostAtCycle, connectsOnClient, hw, readRaised, prevEnergy, last_energy, dres, now, simulate, buf, browsed, tree, attempt, connected, writer, nodes, cur, idx, ok,
                   values, r, tick, wlog, wraised, resolveRes, writeRes, connectRes,
                   connectCalls, disconnectCalls, finalDisconnects, discRaised,
                   retrySleeps, readCalls, writeValuesCalls, succeeded, exhausted>>

\* ------------------------------------------ EnergyMonitor.connect_opcua
\* one iteration of `for attempt in range(retry_attempts)`
EmConnect ==
    /\ variant = "threaded"
    /\ pc = "em_connect"
    /\ connectCalls' = connectCalls + 1
    \* self.opcua_client = Client(url=server_url) inside the loop
    /\ connectsOnClient' = 1
    /\ \/ /\ connected' = TRUE
          /\ connectRes' = "True"
          /\ outcome' = "returned"
          /\ pc' = "done"
          /\ UNCHANGED <<retrySleeps, exhausted>>
       \/ /\ IF attempt < retries - 1
             THEN /\ retrySleeps' = retrySleeps + 1
                  /\ pc' = "em_sleep"
                  /\ UNCHANGED <<connectRes, outcome, exhausted>>
             ELSE /\ connectRes' = "False"
                  /\ outcome' = "returned"
                  /\ exhausted' = TRUE
                  /\ pc' = "done"
                  /\ UNCHANGED retrySleeps
          /\ UNCHANGED connected
    /\ UNCHANGED <<config, logReadings, log_every_n, logTicks, values_every_n, log_values, sample, portOpen, cycles, reading_count, sendCalls, sent, pzem_data, latest_data, tdata, tpc, running, emNodes, prevWritten, resolvedIn, resolvesInSession, sessionAttempt, lostAtCycle, hw, readRaised, prevEnergy, last_energy, dres, now, simulate, buf, browsed, tree, attempt, writer, nodes, cur, idx, ok, values, r,
                   tick, wlog, wraised, resolveRes, writeRes, disconnectCalls,
                   finalDisconnects, discRaised, readCalls, writeValuesCalls,
                   succeeded, signalled, exitCause>>

EmSleep ==
    /\ variant = "threaded"
    /\ pc = "em_sleep"
    /\ attempt' = attempt + 1
    /\ pc' = "em_connect"
    /\ UNCHANGED <<config, logReadings, log_every_n, logTicks, values_every_n, log_values, sample, portOpen, cycles, reading_count, sendCalls, sent, pzem_data, latest_data, tdata, tpc, running, emNodes, prevWritten, resolvedIn, resolvesInSession, sessionAttempt, lostAtCycle, connectsOnClient, hw, readRaised, prevEnergy, last_energy, dres, now, simulate, buf, browsed, tree, connected, writer, nodes, cur, idx, ok, values, r,
                   tick, wlog, wraised, resolveRes, writeRes, connectRes,
                   connectCalls, disconnectCalls, finalDisconnects, discRaised,
                   retrySleeps, readCalls, writeValuesCalls, succeeded, exhausted,
                   signalled, exitCause, outcome>>

\* range(retry_attempts) is empty: return False
EmReturn ==
    /\ variant = "threaded"
    /\ pc = "em_return"
    /\ connectRes' = "False"
    /\ outcome' = "returned"
    /\ exhausted' = TRUE
    /\ pc' = "done"
    /\ UNCHANGED <<config, logReadings, log_every_n, logTicks, values_every_n, log_values, sample, portOpen, cycles, reading_count, sendCalls, sent, pzem_data, latest_data, tdata, tpc, running, emNodes, prevWritten, resolvedIn, resolvesInSession, sessionAttempt, lostAtCycle, connectsOnClient, hw, readRaised, prevEnergy, last_energy, dres, now, simulate, buf, browsed, tree, attempt, connected, writer, nodes, cur, idx, ok,
                   values, r, tick, wlog, wraised, resolveRes, writeRes,
                   connectCalls, disconnectCalls, finalDisconnects, discRaised,
                   retrySleeps, readCalls, writeValuesCalls, succeeded, signalled,
                   exitCause>>

\* ------------------------------------------------------------ decoder calls
mainVars == <<tree, pc, attempt, connected, writer, nodes, cur, idx, ok, values, r,
              tick, wlog, wraised, resolveRes, writeRes, connectRes, connectCalls,
              disconnectCalls, finalDisconnects, discRaised, retrySleeps, readCalls,
              writeValuesCalls, succeeded, exhausted, signalled, exitCause, outcome,
              browsed>>

\* PzemNative._decode_response(buf)
DecodeNative ==
    /\ variant = "decoder"
    /\ Len(dres) < MaxDecodes
    /\ dres' = Append(dres, [by |-> "native", at |-> now, input |-> buf,
                             res |-> decode_response(buf)])
    /\ UNCHANGED <<config, logReadings, log_every_n, logTicks, values_every_n, log_values, sample, portOpen, cycles, reading_count, sendCalls, sent, pzem_data, latest_data, tdata, tpc, running, emNodes, prevWritten, resolvedIn, resolvesInSession, sessionAttempt, lostAtCycle, connectsOnClient, hw, readRaised, prevEnergy, last_energy, mainVars, buf, simulate, now>>

\* PZEMReader.decode_pzem_response(buf)
DecodeReader ==
    /\ variant = "decoder"
    /\ Len(dres) < MaxDecodes
    /\ dres' = Append(dres, [by |-> "reader", at |-> now, input |-> buf,
                             res |-> decode_pzem_response(buf, now)])
    /\ UNCHANGED <<config, logReadings, log_every_n, logTicks, values_every_n, log_values, sample, portOpen, cycles, reading_count, sendCalls, sent, pzem_data, latest_data, tdata, tpc, running, emNodes, prevWritten, resolvedIn, resolvesInSession, sessionAttempt, lostAtCycle, connectsOnClient, hw, readRaised, prevEnergy, last_energy, mainVars, buf, simulate, now>>

\* the clock advances between two calls
TimePasses ==
    /\ variant \in {"decoder", "sensor"}
    /\ now < MaxTime
    /\ now' = now + 1
    /\ UNCHANGED <<config, logReadings, log_every_n, logTicks, values_every_n, log_values, sample, portOpen, cycles, reading_count, sendCalls, sent, pzem_data, latest_data, tdata, tpc, running, emNodes, prevWritten, resolvedIn, resolvesInSession, sessionAttempt, lostAtCycle, connectsOnClient, hw, readRaised, prevEnergy, last_energy, mainVars, buf, simulate, dres>>

\* ------------------------------------------------------------ sensor reads
sensorFrame == <<tree, pc, attempt, connected, writer, nodes, cur, idx, ok, values,
                 tick, wlog, wraised, resolveRes, writeRes, connectRes, connectCalls,
                 disconnectCalls, finalDisconnects, discRaised, retrySleeps,
                 writeValuesCalls, succeeded, exhausted, signalled, exitCause, outcome,
                 browsed>>

\* one call of PzemNative.read()
SensorRead ==
    /\ variant = "sensor"
    /\ readCalls < MaxReads
    /\ readCalls' = readCalls + 1
    /\ prevEnergy' = IF readCalls = 0 THEN <<0, 1>> ELSE r.energy
    /\ IF simulate
       THEN /\ r' = SimReading(now, last_energy)
            /\ last_energy' = r'.energy
            /\ readRaised' = FALSE
            /\ hw' = "none"
            /\ UNCHANGED <<buf, portOpen>>
       ELSE \E port \in SerialOutcomes :
            \E resp \in (IF port = "response" THEN Responses ELSE {<<>>}) :
               LET res == HwRead(port, resp, last_energy)
               IN  /\ r' = res.reading
                   /\ last_energy' = res.last
                   /\ readRaised' = res.raised
                   /\ hw' = port
                   /\ portOpen' = res.open
                   /\ buf' = IF port = "response" THEN resp ELSE <<>>
    /\ UNCHANGED <<config, logReadings, log_every_n, logTicks, values_every_n, log_values, sample, cycles, reading_count, sendCalls, sent, pzem_data, latest_data, tdata, tpc, running, emNodes, prevWritten, resolvedIn, resolvesInSession, sessionAttempt, lostAtCycle, connectsOnClient, sensorFrame, simulate, now, dres>>

\* --------------------------------- PZEMReader._read_loop (background thread)
monFrame == <<tree, attempt, writer, nodes, cur, ok, r, tick, wlog, wraised, resolveRes,
              writeRes, connectRes, connectCalls, finalDisconnects, retrySleeps,
              writeValuesCalls, succeeded, exhausted, browsed, buf, simulate, dres,
              last_energy, prevEnergy, readRaised, hw, connectsOnClient, lostAtCycle,
              sessionAttempt, resolvesInSession, resolvedIn, prevWritten, sample,
              emNodes>>

runVars == <<pc, connected, idx, values, outcome, exitCause, signalled, disconnectCalls,
             discRaised, pzem_data, sent, sendCalls, reading_count, cycles, running>>

threadVars == <<tpc, tdata, latest_data, now, readCalls>>

\* the daemon thread lives as long as the process: until run() has ended
ThreadAlive == variant = "monitor" /\ pc # "done"

\* while self.running:
ReadLoopCheck ==
    /\ ThreadAlive
    /\ tpc = "t_check"
    /\ tpc' = IF running THEN "t_read" ELSE "t_done"
    /\ UNCHANGED <<config, logReadings, log_every_n, logTicks, values_every_n, log_values, sample, portOpen, monFrame, runVars, tdata, latest_data, now, readCalls>>

\* data = self.read_pzem_data()
ReadLoopRead ==
    /\ ThreadAlive
    /\ tpc = "t_read"
    /\ readCalls < MaxReads
    /\ readCalls' = readCalls + 1
    /\ now' = now + 1
    /\ \E port \in SerialOutcomes :
       \E resp \in (IF port = "response" THEN ThreadResponses ELSE {<<>>}) :
          /\ tdata' = read_pzem_data(port, resp, now')
          /\ portOpen' \in PortAfterRead(port)
    /\ tpc' = "t_publish"
    /\ UNCHANGED <<config, logReadings, log_every_n, logTicks, values_every_n, log_values, sample, monFrame, runVars, latest_data>>

\* self.latest_data = data   /   self.latest_data = {"status": str(data)}
ReadLoopPublish ==
    /\ ThreadAlive
    /\ tpc = "t_publish"
    /\ latest_data' = Publish(latest_data, tdata)
    /\ tpc' = "t_sleep"
    /\ UNCHANGED <<config, logReadings, log_every_n, logTicks, values_every_n, log_values, sample, portOpen, monFrame, runVars, tdata, now, readCalls>>

\* time.sleep(self.read_interval)
ReadLoopSleep ==
    /\ ThreadAlive
    /\ tpc = "t_sleep"
    /\ tpc' = "t_check"
    /\ UNCHANGED <<config, logReadings, log_every_n, logTicks, values_every_n, log_values, sample, portOpen, monFrame, runVars, tdata, latest_data, now, readCalls>>

\* ------------------------------------------------------ EnergyMonitor.run
\* self.pzem_reader.start_reading(); await asyncio.sleep(startup_delay)
StartReading ==
    /\ variant = "monitor"
    /\ pc = "m_start"
    /\ running' = TRUE
    /\ tpc' = "t_check"
    /\ pc' = "m_startup_sleep"
    /\ UNCHANGED <<config, logReadings, log_every_n, logTicks, values_every_n, log_values, sample, portOpen, monFrame, connected, idx, values, outcome, exitCause, signalled,
                   disconnectCalls, discRaised, pzem_data, sent, sendCalls,
                   reading_count, cycles, tdata, latest_data, now, readCalls>>

\* the startup sleep is over: await self.connect_opcua()
RunStartupSleep ==
    /\ variant = "monitor"
    /\ pc = "m_startup_sleep"
    /\ pc' = "m_connect"
    /\ UNCHANGED <<config, logReadings, log_every_n, logTicks, values_every_n, log_values, sample, portOpen, monFrame, connected, idx, values, outcome, exitCause, signalled,
                   disconnectCalls, discRaised, pzem_data, sent, sendCalls,
                   reading_count, cycles, running, threadVars>>

\* if not await self.connect_opcua(): return
RunConnect ==
    /\ variant = "monitor"
    /\ pc = "m_connect"
    /\ \/ /\ connected' = TRUE
          /\ pc' = "m_loop"
          /\ UNCHANGED outcome
       \/ /\ connected' = FALSE
          /\ pc' = "done"
          /\ outcome' = "returned"
    /\ UNCHANGED <<config, logReadings, log_every_n, logTicks, values_every_n, log_values, sample, portOpen, monFrame, idx, values, exitCause, signalled, disconnectCalls,
                   discRaised, pzem_data, sent, sendCalls, reading_count, cycles,
                   running, threadVars>>

\* pzem_data = self.get_pzem_data(); send it if it holds a measurement
RunGetData ==
    /\ variant = "monitor"
    /\ pc = "m_loop"
    /\ cycles' = cycles + 1
    /\ pzem_data' = latest_data
    /\ sent' = <<>>
    /\ idx' = 1
    /\ IF ShouldSend(latest_data)
       THEN /\ sendCalls' = sendCalls + 1
            /\ values' = SendValues(latest_data, now)
            /\ pc' = "m_send"
       ELSE /\ pc' = "m_sleep"
            /\ UNCHANGED <<sendCalls, values>>
    /\ UNCHANGED <<config, logReadings, log_every_n, logTicks, values_every_n, log_values, sample, portOpen, monFrame, connected, outcome, exitCause, signalled,
                   disconnectCalls, discRaised, reading_count, running, threadVars>>

\* send_data_to_opcua goes on with the next key
SendNextKey ==
    /\ idx' = idx + 1
    /\ UNCHANGED <<pc, reading_count, logReadings, exitCause>>

\* send_data_to_opcua returned True: reading_count += 1, then
\* `if reading_count % log_every_n == 0` logs the reading; with log_every_n = 0
\* the modulo raises ZeroDivisionError, which `except Exception` logs and
\* raises again
SendReturnedTrue ==
    /\ reading_count' = reading_count + 1
    /\ UNCHANGED idx
    /\ IF log_every_n = 0
       THEN /\ exitCause' = "ZeroDivisionError"
            /\ pc' = "m_finally"
            /\ UNCHANGED logReadings
       ELSE /\ logReadings' = IF (reading_count + 1) % log_every_n = 0
                              THEN logReadings \cup {reading_count + 1}
                              ELSE logReadings
            /\ pc' = "m_sleep"
            /\ UNCHANGED exitCause

\* for key, value in values.items(): one key per step; a write that raises
\* makes send_data_to_opcua return False
RunSendStep ==
    /\ variant = "monitor"
    /\ pc = "m_send"
    /\ LET key == SendKeys[idx]
       IN  IF key \notin emNodes
           THEN /\ UNCHANGED sent
                /\ IF idx < Len(SendKeys) THEN SendNextKey ELSE SendReturnedTrue
           ELSE /\ sent' = Append(sent, <<key, values[key]>>)
                /\ \/ /\ pc' = "m_sleep"
                      /\ UNCHANGED <<idx, reading_count, logReadings, exitCause>>
                   \/ IF idx < Len(SendKeys) THEN SendNextKey ELSE SendReturnedTrue
    /\ UNCHANGED <<config, log_every_n, logTicks, values_every_n, log_values, sample, portOpen, monFrame, connected, values, outcome, signalled,
                   disconnectCalls, discRaised, pzem_data, sendCalls, cycles, running,
                   threadVars>>

\* await asyncio.sleep(sample_interval) completes
RunSleep ==
    /\ variant = "monitor"
    /\ pc = "m_sleep"
    /\ cycles < MaxTicks
    /\ pc' = "m_loop"
    /\ UNCHANGED <<config, logReadings, log_every_n, logTicks, values_every_n, log_values, sample, portOpen, monFrame, connected, idx, values, outcome, exitCause, signalled,
                   disconnectCalls, discRaised, pzem_data, sent, sendCalls,
                   reading_count, cycles, running, threadVars>>

\* Ctrl+C or a cancellation reaches run() at its pending await: inside the
\* try statement the finally clause runs, before it the error leaves run()
RunInterrupt ==
    /\ variant = "monitor"
    /\ signalled = NoSignal
    /\ pc \in {"m_startup_sleep", "m_connect", "m_send", "m_sleep"}
    /\ signalled' = [kind |-> "kbint", at |-> pc]
    /\ IF pc \in {"m_startup_sleep", "m_connect"}
       THEN /\ pc' = "done"
            /\ outcome' = "KeyboardInterrupt"
            /\ UNCHANGED exitCause
       ELSE /\ pc' = "m_finally"
            /\ exitCause' = "kbint"
            /\ UNCHANGED outcome
    /\ UNCHANGED <<config, logReadings, log_every_n, logTicks, values_every_n, log_values, sample, portOpen, monFrame, connected, idx, values, disconnectCalls, discRaised,
                   pzem_data, sent, sendCalls, reading_count, cycles, running,
                   threadVars>>

\* except Exception as e: ... raise
RunFault ==
    /\ variant = "monitor"
    /\ pc \in {"m_loop", "m_sleep"}
    /\ exitCause = "none"
    /\ exitCause' = "fault"
    /\ pc' = "m_finally"
    /\ UNCHANGED <<config, logReadings, log_every_n, logTicks, values_every_n, log_values, sample, portOpen, monFrame, connected, idx, values, outcome, signalled,
                   disconnectCalls, discRaised, pzem_data, sent, sendCalls,
                   reading_count, cycles, running, threadVars>>

\* finally: self.pzem_reader.running = False; disconnect (errors swallowed)
RunFinally ==
    /\ variant = "monitor"
    /\ pc = "m_finally"
    /\ running' = FALSE
    /\ disconnectCalls' = disconnectCalls + 1
    /\ discRaised' \in BOOLEAN
    /\ connected' = FALSE
    /\ pc' = "done"
    /\ outcome' = IF exitCause \in {"fault", "ZeroDivisionError"} THEN "raised" ELSE "returned"
    /\ UNCHANGED <<config, logReadings, log_every_n, logTicks, values_every_n, log_values, sample, portOpen, monFrame, idx, values, exitCause, signalled, pzem_data, sent,
                   sendCalls, reading_count, cycles, threadVars>>

\* ------------------------------------------------------------------- Spec
Next ==
    \/ ResolvePathStep
    \/ ResolveVarStep
    \/ ResolveBrowseRaises
    \/ ResolveVerbose
    \/ WriteStep
    \/ Connect
    \/ FailDisconnect
    \/ Backoff
    \/ Read
    \/ Sleep
    \/ Fault
    \/ FinalDisconnect
    \/ Cancel
    \/ KeyboardInterrupt
    \/ SessionLost
    \/ EmConnect
    \/ EmSleep
    \/ EmReturn
    \/ DecodeNative
    \/ DecodeReader
    \/ TimePasses
    \/ SensorRead
    \/ ReadLoopCheck
    \/ ReadLoopRead
    \/ ReadLoopPublish
    \/ ReadLoopSleep
    \/ StartReading
    \/ RunStartupSleep
    \/ RunConnect
    \/ RunGetData
    \/ RunSendStep
    \/ RunSleep
    \/ RunInterrupt
    \/ RunFault
    \/ RunFinally

Spec == Init /\ [][Next]_vars

TypeOK ==
    /\ variant \in Variants
    /\ retries \in 0..MaxRetries
    /\ pc \in {"connect", "resolve_path", "resolve_vars", "resolve_verbose",
               "fail_disconnect", "backoff", "read", "write", "sleep",
               "final_disconnect", "done", "em_connect", "em_sleep", "em_return", "idle",
               "m_start", "m_startup_sleep", "m_connect", "m_loop", "m_send", "m_sleep",
               "m_finally"}
    /\ DOMAIN nodes \subseteq Range(variable_names)
    /\ tick \in 0..MaxTicks
    /\ outcome \in {"running", "returned", "raised", "CancelledError", "KeyboardInterrupt"}


\* ------------------------------------------------------------ properties
MainDone == variant = "main" /\ pc = "done"

\* positions of variable_names that have no resolved node
Unresolved == {i \in 1..Len(variable_names) : variable_names[i] \notin DOMAIN nodes}

IsResolved(n) == n \in DOMAIN nodes

\* the resolved names in the order of variable_names
ResolvedSeq == SelectSeq(variable_names, IsResolved)

\* the names whose write was issued by the last write_values call, in order
WrittenNames == [i \in 1..Len(wlog) |-> wlog[i][1]]

WriteValuesReturned == writeRes # "none"

\* every segment of channel_path and every variable name exists in the tree
AllExist ==
    /\ \A k \in 1..Len(channel_path) : SubSeq(channel_path, 1, k) \in tree
    /\ \A n \in Range(variable_names) : (channel_path \o <<n>>) \in tree

\* C1: with ceiling N >= 1 and every attempt failing there are exactly N
\* connect calls and N-1 backoff sleeps (one before each attempt but the first,
\* none after the last) and the controller has terminated; a success on
\* attempt k is reached after exactly k connect calls and k-1 sleeps, and no
\* further connect call follows.  Both for main() and for connect_opcua.
C1_RetryCount ==
    /\ variant = "main" =>
          /\ connectCalls <= retries
          /\ pc = "connect" => (connectCalls = attempt - 1 /\ retrySleeps = attempt - 1)
          /\ exhausted => /\ pc = "done"
                          /\ connectCalls = retries
                          /\ retrySleeps = retries - 1
                          /\ ~succeeded
          /\ succeeded => /\ connectCalls = attempt
                          /\ retrySleeps = attempt - 1
                          /\ attempt <= retries
    /\ (variant = "threaded" /\ retries >= 1) =>
          /\ connectCalls <= retries
          /\ connectRes = "False" => /\ pc = "done"
                                     /\ connectCalls = retries
                                     /\ retrySleeps = retries - 1
          /\ connectRes = "True" => /\ pc = "done"
                                    /\ connectCalls = attempt + 1
                                    /\ retrySleeps = attempt

C1_Witness ==
    /\ variant = "main"
    /\ retries = 3
    /\ exhausted
    /\ connectCalls = 3
    /\ retrySleeps = 2

\* C2: for every attempt ceiling, 0 included, main() calls pzem.read() or
\* write_values only after some attempt connected and resolved all nodes, and
\* ends without either call when no attempt succeeded.
C2_SamplingOnlyAfterSuccess ==
    variant = "main" =>
        /\ (readCalls > 0 \/ writeValuesCalls > 0) => succeeded
        /\ (pc = "done" /\ ~succeeded) => (readCalls = 0 /\ writeValuesCalls = 0)

\* C3: once the sampling loop of main() has been left (cancellation during the
\* sleep or a write, Ctrl+C, a fault) the only thing left is the disconnect of
\* the finally clause; when main() has ended exactly one such disconnect call
\* was issued; whether or not that call raised, a loop left by cancellation or
\* Ctrl+C ends in a normal return, and only a fault is re-raised.
C3_OneDisconnectOnExit ==
    (variant = "main" /\ exitCause # "none") =>
        /\ pc \in {"final_disconnect", "done"}
        /\ pc = "final_disconnect" => finalDisconnects = 0
        /\ pc = "done" => finalDisconnects = 1
        /\ (pc = "done" /\ exitCause = "cancel") => outcome = "returned"
        /\ (pc = "done" /\ outcome = "raised") => exitCause = "fault"

C3_Witness ==
    /\ MainDone
    /\ exitCause = "cancel"
    /\ signalled.at = "sleep"
    /\ finalDisconnects = 1
    /\ discRaised
    /\ outcome = "returned"

\* C4: a cancellation delivered in the connect / resolve / backoff phase of
\* main() is followed by a disconnect call of the shutdown path and main()
\* returns without raising.
C4_CancelDuringConnectIsClean ==
    (MainDone /\ signalled.kind = "cancel"
        /\ signalled.at \in {"connect", "resolve_path", "resolve_vars", "resolve_verbose", "backoff"})
      => (outcome = "returned" /\ finalDisconnects = 1)

\* C5: when the attempt ceiling is exhausted the process ends with a failure
\* outcome (non-zero exit code), not with a normal return.
C5_ExhaustionExitsNonZero ==
    (MainDone /\ exhausted) => ExitCode(outcome) # 0

C7_FailedWriteDoesNotAbort ==
    (WriteValuesReturned /\ wraised # 0) => WrittenNames = ResolvedSeq

\* C8: write_values returns True exactly when every name of variable_names had
\* a resolved node and its write succeeded; otherwise it returns False, and it
\* never raises to the caller.
C8_AggregateResult ==
    /\ WriteValuesReturned =>
          /\ writeRes \in {"True", "False"}
          /\ writeRes = "True" <=> (/\ Unresolved = {}
                                    /\ wraised = 0
                                    /\ WrittenNames = variable_names)
    /\ (variant = "writer" /\ pc = "done") => (WriteValuesReturned /\ outcome = "returned")

C8_Witness ==
    /\ variant = "writer"
    /\ pc = "done"
    /\ variable_names = DefaultVars
    /\ writeRes = "True"
    /\ Len(wlog) = 4

\* C9: when every segment of channel_path and every variable name exists in
\* the address space, resolve_nodes does not report failure, and whenever it
\* returns True the node mapping has exactly one entry per name of
\* variable_names, each the child of the channel container with that name.
C9_ExactMappingOnSuccess ==
    /\ (resolveRes # "none" /\ AllExist /\ (variant = "resolver" \/ connected)) =>
          resolveRes \in {"True", "raised"}
    /\ (resolveRes = "True" /\ (variant = "resolver" \/ writer)) =>
          /\ DOMAIN nodes = Range(variable_names)
          /\ \A n \in DOMAIN nodes : nodes[n] = channel_path \o <<n>>

C9_Witness ==
    /\ variant = "resolver"
    /\ pc = "done"
    /\ resolveRes = "True"
    /\ variable_names = DefaultVars
    /\ (channel_path \o <<"Frequency">>) \in tree
    /\ Cardinality(DOMAIN nodes) = 4

\* C10: when resolve_nodes returns False the writer's node mapping is empty.
C10_NoPartialMapping ==
    (variant = "resolver" /\ resolveRes = "False") => DOMAIN nodes = {}

\* number of leading segments of channel_path that exist in the tree
PathDepth ==
    Cardinality({k \in 1..Len(channel_path) :
                    \A j \in 1..k : SubSeq(channel_path, 1, j) \in tree})

ResolveRan == variant = "resolver" \/ (variant = "main" /\ writer)

\* C11: the walk of resolve_nodes starts at the root and looks up the segments
\* of channel_path in order, each in the container reached by the exact
\* names of the segments before it; it never stands on a node whose browse
\* path differs from a prefix of channel_path (no case-insensitive or partial
\* match); when a segment has no child of exactly that name the call returns
\* False at once: no deeper container and no variable was browsed, and no
\* node is mapped.
C11_ExactNameWalk ==
    ResolveRan =>
        /\ \A i \in 1..Len(browsed) :
              IF i <= Len(channel_path)
              THEN browsed[i] = <<SubSeq(channel_path, 1, i - 1), channel_path[i]>>
              ELSE browsed[i] = <<channel_path, variable_names[i - Len(channel_path)]>>
        /\ Len(browsed) <= PathDepth + 1 \/ PathDepth = Len(channel_path)
        /\ cur = SubSeq(channel_path, 1, Len(cur))
        /\ cur \in tree \/ tree = {}
        /\ (resolveRes = "False" /\ PathDepth < Len(channel_path)) =>
              /\ Len(browsed) = PathDepth + 1
              /\ cur = SubSeq(channel_path, 1, PathDepth)
              /\ DOMAIN nodes = {}

C11_Witness ==
    /\ variant = "resolver"
    /\ pc = "done"
    /\ channel_path = DefaultPath
    /\ PathDepth = 3
    /\ <<"Monitoring", "Consumption", "Electricity", "main">> \in tree
    /\ resolveRes = "False"
    /\ Len(browsed) = 4

DecodeCalls == 1..Len(dres)

\* C12: for every buffer shorter than 25 bytes, the empty one included, both
\* decoders return a decode failure (None, resp. the "Response too short"
\* message) and never a reading.
C12_ShortFramesNeverDecode ==
    \A c \in DecodeCalls :
        Len(dres[c].input) < 25 =>
            IF dres[c].by = "native"
            THEN dres[c].res = NoneResult
            ELSE dres[c].res = StrResult("Response too short")

C12_Witness ==
    /\ Len(buf) = 24
    /\ Len(dres) = 2
    /\ dres[1].by = "native"
    /\ dres[2].by = "reader"

\* C13: for every buffer of at least 25 bytes _decode_response yields status
\* OK, voltage (256*b[3]+b[4])/10, current (65536*b[5]+256*b[6]+b[7])/1000,
\* power (65536*b[9]+256*b[10]+b[11])/10 and energy 65536*b[13]+256*b[14]+b[15]
\* (b indexed from 0), whatever the other bytes are.
C13_FieldExtraction ==
    \A c \in DecodeCalls :
        (dres[c].by = "native" /\ Len(dres[c].input) >= 25) =>
            LET b == dres[c].input
            IN  dres[c].res =
                  [kind |-> "reading",
                   voltage |-> <<256 * b[4] + b[5], 10>>,
                   current |-> <<65536 * b[6] + 256 * b[7] + b[8], 1000>>,
                   power |-> <<65536 * b[10] + 256 * b[11] + b[12], 10>>,
                   energy |-> <<65536 * b[14] + 256 * b[15] + b[16], 1>>,
                   status |-> "OK"]

\* the fixture of the spec: 0x08 0xFC -> 230.0 V, 0x00 0x00 0x96 -> 0.150 A
C13_Witness ==
    /\ Len(dres) >= 1
    /\ dres[1].by = "native"
    /\ Len(buf) = 25
    /\ SubSeq(buf, 4, 8) = <<8, 252, 0, 0, 150>>
    /\ buf[9] = 255
    /\ dres[1].res.voltage = <<2300, 10>>
    /\ dres[1].res.current = <<150, 1000>>

WithoutTimestamp(res) == IF res.kind = "dict" THEN [res EXCEPT !.timestamp = 0] ELSE res

IsZero(x) == x[1] = 0

\* C15: in hardware mode no exception leaves read(), and whenever the serial
\* round trip fails (port cannot be opened, write or read raises, no
\* response, fewer than 25 bytes) the reading returned has an error status
\* (neither OK nor SIM) and voltage, current, power and energy all zero.
C15_ReadNeverFails ==
    (variant = "sensor" /\ ~simulate /\ readCalls > 0) =>
        /\ ~readRaised
        /\ (hw # "response" \/ Len(buf) < 25) =>
              /\ r.status \notin {"OK", "SIM"}
              /\ IsZero(r.voltage) /\ IsZero(r.current) /\ IsZero(r.power) /\ IsZero(r.energy)

C15_Witness ==
    /\ variant = "sensor"
    /\ ~simulate
    /\ readCalls = 2
    /\ hw = "open_error"
    /\ r.status = "Serial error"
    /\ last_energy = <<65536, 1>>

\* C16: in simulate mode every reading has status SIM, its voltage is 228.5 or
\* 229.5 (229.0 +/- 0.5), and its energy is not below the energy of the
\* reading before it.
C16_SimulatedEnergyMonotone ==
    (variant = "sensor" /\ simulate /\ readCalls > 0) =>
        /\ r.status = "SIM"
        /\ r.voltage \in {<<2285, 10>>, <<2295, 10>>}
        /\ RatLeq(prevEnergy, r.energy)
        /\ r.energy = last_energy

C16_Witness ==
    /\ variant = "sensor"
    /\ simulate
    /\ readCalls = 3
    /\ r.voltage = <<2285, 10>>
    /\ r.current = <<140, 1000>>
    /\ prevEnergy[1] > 0
    /\ prevEnergy[1] < r.energy[1]

\* C17: in main() every failed attempt, whether connect raised or the nodes
\* did not resolve, is followed by a disconnect call and the writer with its
\* nodes is dropped before the backoff sleep and before the next connect; both
\* kinds of failure use up one attempt of the same budget.
C17_CleanupBeforeRetry ==
    variant = "main" =>
        /\ pc = "backoff" => /\ ~writer /\ DOMAIN nodes = {} /\ ~connected
                             /\ disconnectCalls = attempt
                             /\ connectCalls = attempt
                             /\ attempt < retries
        /\ pc = "connect" => /\ ~writer /\ DOMAIN nodes = {} /\ ~connected
                             /\ disconnectCalls = attempt - 1
                             /\ connectCalls = attempt - 1
        /\ exhausted => /\ ~writer /\ DOMAIN nodes = {}
                        /\ disconnectCalls = retries
                        /\ connectCalls = retries

\* a resolution failure of the first attempt, cleaned up, now sleeping
C17_Witness ==
    /\ variant = "main"
    /\ pc = "backoff"
    /\ attempt = 1
    /\ resolveRes = "False"
    /\ Len(browsed) > Len(channel_path)
    /\ disconnectCalls = 1
    /\ ~writer

\* C18: every connect attempt of main() is made on a fresh client object: no
\* client object receives a second connect call.
C18_FreshSessionPerAttempt ==
    variant = "main" => connectsOnClient <= 1

\* C19: once main() is in the sampling loop, a failed write_values or an error
\* reading neither ends the loop nor causes a connect, disconnect or
\* re-resolution: the loop is left only by a shutdown signal or a fault, and
\* every completed cycle made exactly one read and one write_values call.
C19_FailuresNeverStopSampling ==
    variant = "main" =>
        /\ pc = "sleep" => (readCalls = tick /\ writeValuesCalls = tick)
        /\ SamplingPhase => /\ connectCalls = (IF retries = 0 THEN 0 ELSE attempt)
                            /\ disconnectCalls = (IF retries = 0 THEN 0 ELSE attempt - 1)
                            /\ resolveRes = (IF retries = 0 THEN "none" ELSE "True")
        /\ exitCause # "none" => (signalled.kind # "none" \/ exitCause = "fault")

\* C20: after the session was lost during sampling no further cycle writes
\* through the old nodes: the controller has reconnected (and resolved the
\* nodes again) before write_values runs again.
C20_ReconnectAfterSessionLoss ==
    (variant = "main" /\ lostAtCycle > 0 /\ readCalls > lostAtCycle /\ pc = "write") => connected

\* C21: resolve_nodes is called exactly once on every session that was
\* established, and every handle a write_values call of main() wrote through
\* was resolved on the session in use, in the attempt that established it,
\* never in an earlier, failed attempt.
C21_ResolutionBoundToSession ==
    variant = "main" =>
        /\ sessionAttempt # 0 => resolvesInSession = 1
        /\ connected => sessionAttempt = attempt
        /\ \A i \in 1..Len(wlog) :
              /\ wlog[i][1] \in DOMAIN resolvedIn
              /\ resolvedIn[wlog[i][1]] = sessionAttempt
              /\ sessionAttempt = attempt
        /\ DOMAIN resolvedIn = DOMAIN nodes

\* after a failed first attempt, a write_values call wrote every variable
\* through the handles of the session of a later attempt
C21_Witness ==
    /\ variant = "main"
    /\ attempt >= 2
    /\ disconnectCalls >= 1
    /\ sessionAttempt = attempt
    /\ writeRes = "True"
    /\ Len(wlog) = Len(variable_names)

\* C22: every write_values call issues its writes in the order of
\* variable_names, whatever the values mapping holds, so two calls of main()
\* that returned wrote to the same handles in the same order.
C22_SameWritesEveryCall ==
    /\ variant \in {"main", "writer"} =>
          WrittenNames = SubSeq(ResolvedSeq, 1, Len(wlog))
    /\ (variant = "main" /\ writeValuesCalls >= 2 /\ WriteValuesReturned) =>
          WrittenNames = prevWritten

\* the readings an acquisition can have produced up to now
WholeReadings == {decode_pzem_response(resp, t) : resp \in {FrameA, FrameB}, t \in 1..now}

\* d holds no measurement, or all its fields come from one acquisition
IsWhole(d) == HasVoltage(d) => d \in WholeReadings

\* C23: under every interleaving of the background _read_loop and run(), the
\* published latest_data and the snapshot run() took of it are completely
\* formed readings (all fields from one acquisition), and every value a send
\* writes is the field of that one snapshot.
C23_LatestReadingIsWholeSnapshot ==
    variant = "monitor" =>
        /\ IsWhole(latest_data)
        /\ IsWhole(pzem_data)
        /\ sent # <<>> =>
              /\ HasVoltage(pzem_data)
              /\ \A i \in 1..Len(sent) :
                    sent[i][1] # "timestamp" => sent[i][2] = pzem_data[sent[i][1]]

\* a send wrote all eight values of its snapshot while the thread had already
\* published the reading of a later acquisition
C23_Witness ==
    /\ variant = "monitor"
    /\ Len(sent) = Len(SendKeys)
    /\ HasVoltage(pzem_data)
    /\ HasVoltage(latest_data)
    /\ latest_data.voltage # pzem_data.voltage
    /\ latest_data.timestamp > pzem_data.timestamp

\* C24: in hardware mode no serial port is held between reads: whatever the
\* round trip did (open failed, write or read raised, no or short response,
\* undecodable or good frame), the port is closed when read() has returned.
C24_NoSerialHandleBetweenReads ==
    variant = "sensor" => ~portOpen

\* a hardware read() whose write or read on the open port raised
C24_Witness ==
    /\ variant = "sensor"
    /\ ~simulate
    /\ readCalls >= 1
    /\ hw \in {"write_error", "read_error"}
    /\ r.status = "Serial error"
    /\ ~portOpen

RatEq(a, b) == IF a[2] = b[2] THEN a[1] = b[1] ELSE a[1] * b[2] = b[1] * a[2]

\* C25: every simulate-mode read() adds power * (sample / 3600) Wh to the
\* accumulated energy, sample being the configured sample interval.
C25_AccumulationFollowsInterval ==
    (variant = "sensor" /\ simulate /\ readCalls >= 1) =>
        RatEq(r.energy, RatAdd(prevEnergy, RatMul(r.power, <<sample, 3600>>)))

HasDuplicates(s) == \E i, j \in 1..Len(s) : i # j /\ s[i] = s[j]

\* C26: a variable-name list that holds a name twice is a configuration
\* error: main() then neither connects nor samples, and no write_values call
\* writes to one handle twice.
C26_DuplicateNamesRejected ==
    /\ (variant = "main" /\ HasDuplicates(variable_names)) =>
          (connectCalls = 0 /\ readCalls = 0)
    /\ variant \in {"main", "writer"} => ~HasDuplicates(WrittenNames)

\* C27: a cycle of main()'s sampling loop whose read() returned an error
\* reading still makes its one write_values call, and the payload of that
\* call (and so every value it writes) is zero for all four names.
C27_ErrorReadingWrittenAsZeros ==
    (variant = "main" /\ pc \in {"write", "sleep"} /\ r.status \notin {"OK", "SIM"}) =>
        /\ writeValuesCalls = readCalls
        /\ \A n \in PayloadNames : values[n] = 0
        /\ \A i \in 1..Len(wlog) : wlog[i][2] = 0

\* C28: a name of variable_names that has a node but is missing from the
\* values mapping is written as 0.0, and that alone does not make the result
\* False: a call in which every name is resolved and no write raised writes
\* every name and returns True.
C28_MissingValueWrittenAsZero ==
    variant \in {"main", "writer"} =>
        /\ \A i \in 1..Len(wlog) : wlog[i][1] \notin DOMAIN values => wlog[i][2] = 0
        /\ (WriteValuesReturned /\ Unresolved = {} /\ wraised = 0) =>
              (writeRes = "True" /\ WrittenNames = variable_names)

\* main() wrote a good voltage and, for the configured name "Frequency" that
\* its payload does not hold, the value 0; write_values returned True
C28_Witness ==
    /\ variant = "main"
    /\ variable_names = <<"AcVoltagePe", "Frequency">>
    /\ r.status = "OK"
    /\ wlog = <<<<"AcVoltagePe", values["AcVoltagePe"]>>, <<"Frequency", 0>>>>
    /\ values["AcVoltagePe"] # 0
    /\ writeRes = "True"

\* C29: whenever EnergyMonitor.run() has ended after start_reading() was
\* called (connect failure, Ctrl+C, unexpected error), the reader's running
\* flag is False, so that _read_loop leaves its while loop.
C29_AcquisitionStoppedOnExit ==
    (variant = "monitor" /\ pc = "done" /\ tpc # "off") => ~running

\* C30: run() calls send_data_to_opcua only with a snapshot of latest_data
\* that holds a decoded measurement; in a cycle whose snapshot is empty or
\* holds only a status, no send is made and no value is written.
C30_NoWriteWithoutReading ==
    variant = "monitor" =>
        /\ pc = "m_send" => (HasVoltage(pzem_data) /\ pzem_data.status = "OK")
        /\ sent # <<>> => (HasVoltage(pzem_data) /\ pzem_data.status = "OK")
        /\ (pc = "m_sleep" /\ ~HasVoltage(pzem_data)) => sent = <<>>
        /\ sendCalls <= cycles
        /\ (cycles = 1 /\ pc \in {"m_send", "m_sleep"} /\ ~HasVoltage(pzem_data)) => sendCalls = 0

\* the first cycle sent a measurement; the second found only an error status
\* in latest_data and wrote nothing
C30_Witness ==
    /\ variant = "monitor"
    /\ cycles = 2
    /\ sendCalls = 1
    /\ pc = "m_sleep"
    /\ DOMAIN pzem_data = {"kind", "status"}
    /\ sent = <<>>

\* C31: no value of the log-every-N setting stops the sampling: main() counts
\* tick once per cycle whatever the read and the write did and logs exactly at
\* the ticks that are multiples of max(1, N) (when log_values is set);
\* EnergyMonitor.run() logs exactly at every N-th successful send and is never
\* ended by the log step.
C31_LogCadenceCannotStopSampling ==
    /\ variant = "main" =>
          /\ pc = "sleep" => tick = readCalls
          /\ logTicks = {t \in 1..tick : log_values /\ t % Max1(values_every_n) = 0}
    /\ variant = "monitor" =>
          /\ exitCause # "ZeroDivisionError"
          /\ log_every_n # 0 =>
                logReadings = {c \in 1..reading_count : c % log_every_n = 0}

\* C32: every PZEMReader.read_pzem_data() call of the threaded variant that
\* opened the serial device has closed it when the call returns, also when
\* the write or the read on the open port raised.
C32_ThreadedReadClosesPort ==
    variant = "monitor" => ~portOpen

====
